---- MODULE Spec2Model ----
(***************************************************************************)
(* Model of the two tabular pipelines of Frameworks_Assignment:            *)
(*   data_analysis.py       (bibliographic metadata: clean_data and the    *)
(*                           aggregators over the cleaned table)           *)
(*   estimated_analysis.py  (country/year estimates: clean_estimated and   *)
(*                           the two plot aggregations)                    *)
(* A DataFrame is a record  [cols, dtype, rows]: the set of column names,  *)
(* the dtype of every column and the sequence of rows (functions from the  *)
(* column names to cells).  A text is a sequence of one-character strings, *)
(* so that strip, split, parsing and formatting are computed character by  *)
(* character.  A number is kept in halves (field h = 2 * value), which     *)
(* represents the integers, the values x.5 and every median of integers.   *)
(***************************************************************************)
EXTENDS Integers, Sequences, FiniteSets, TLC

VARIABLES
    pc,     \* position in the pipeline: "loaded", "cleaned", "recleaned", "filtered", "done", "failed"
    kind,   \* which pipeline the table belongs to: "bib" or "est"
    raw,    \* the DataFrame as loaded
    df,     \* the current DataFrame (the cleaner's output once cleaned)
    prev,   \* the DataFrame before the last cleaning pass
    call,   \* the last call made: [fn, args]
    out,    \* the value the last call returned
    err     \* the exception the last call raised, or "none"

vars == <<pc, kind, raw, df, prev, call, out, err>>

(***************************************************************************)
(* Bounds of the model.                                                    *)
(***************************************************************************)
MaxEstRows == 2
MaxBibRows == 3
MaxCleanRows == 2
MaxAggRows == 3
MaxTitles == 3
MaxTopN == 3

(***************************************************************************)
(* Cells.                                                                  *)
(***************************************************************************)
NaN == [k |-> "nan", s |-> <<>>, h |-> 0]      \* float NaN
None == [k |-> "none", s |-> <<>>, h |-> 0]    \* Python None in an object column
NA == [k |-> "na", s |-> <<>>, h |-> 0]        \* pd.NA
NaT == [k |-> "nat", s |-> <<>>, h |-> 0]      \* pd.NaT
Str(t) == [k |-> "str", s |-> t, h |-> 0]
Num(h) == [k |-> "num", s |-> <<>>, h |-> h]   \* the number h / 2
Date(y, m, d) == [k |-> "date", s |-> <<>>, h |-> y * 10000 + m * 100 + d]

IsNa(c) == c.k \in {"nan", "none", "na", "nat"}

Digits == <<"0", "1", "2", "3", "4", "5", "6", "7", "8", "9">>
DigitSet == {Digits[i] : i \in 1..10}
DigitVal(ch) == (CHOOSE i \in 1..10 : Digits[i] = ch) - 1

Whitespace == {" "}

RECURSIVE LStrip(_)
LStrip(t) == IF t # <<>> /\ Head(t) \in Whitespace THEN LStrip(Tail(t)) ELSE t

RECURSIVE RStrip(_)
RStrip(t) ==
    IF t # <<>> /\ t[Len(t)] \in Whitespace THEN RStrip(SubSeq(t, 1, Len(t) - 1)) ELSE t

\* str.strip()
Strip(t) == RStrip(LStrip(t))

RECURSIVE IntToText(_)
IntToText(n) ==
    IF n < 0 THEN <<"-">> \o IntToText(0 - n)
    ELSE IF n < 10 THEN <<Digits[n + 1]>>
    ELSE IntToText(n \div 10) \o <<Digits[(n % 10) + 1]>>

\* str() of a number of an integer column and of a float column
FormatNum(h, dt) ==
    IF dt \in {"int64", "Int64"} THEN IntToText(h \div 2)
    ELSE IntToText(h \div 2) \o <<".">> \o (IF h % 2 = 0 THEN <<"0">> ELSE <<"5">>)

\* Series.astype(str) on one cell of a column of dtype dt: a missing value
\* becomes the text of its repr
AsTypeStr(c, dt) ==
    CASE c.k = "str" -> c
      [] c.k = "nan" -> Str(<<"n", "a", "n">>)
      [] c.k = "none" -> Str(<<"N", "o", "n", "e">>)
      [] c.k = "na" -> Str(<<"<", "N", "A", ">">>)
      [] c.k = "nat" -> Str(<<"N", "a", "T">>)
      [] c.k = "num" -> Str(FormatNum(c.h, dt))
      [] OTHER -> Str(IntToText(c.h))

AllDigits(t) == \A i \in 1..Len(t) : t[i] \in DigitSet

RECURSIVE DigitsVal(_)
DigitsVal(t) == IF t = <<>> THEN 0 ELSE DigitsVal(SubSeq(t, 1, Len(t) - 1)) * 10 + DigitVal(t[Len(t)])

\* the fraction digits in halves: 0 for zeros, 1 otherwise (the texts of the
\* model carry the fractions .0 and .5 only)
FracHalves(t) == IF \A i \in 1..Len(t) : t[i] = "0" THEN 0 ELSE 1

\* an unsigned decimal numeral: digits, optionally a point and digits
ParseUnsigned(t) ==
    LET dots == {i \in 1..Len(t) : t[i] = "."} IN
    IF t = <<>> THEN NaN
    ELSE IF dots = {} THEN (IF AllDigits(t) THEN Num(2 * DigitsVal(t)) ELSE NaN)
    ELSE IF Cardinality(dots) > 1 THEN NaN
    ELSE LET d == CHOOSE i \in dots : TRUE
             ip == SubSeq(t, 1, d - 1)
             fp == SubSeq(t, d + 1, Len(t))
         IN IF Len(ip) + Len(fp) > 0 /\ AllDigits(ip) /\ AllDigits(fp)
            THEN Num(2 * DigitsVal(ip) + FracHalves(fp))
            ELSE NaN

\* pd.to_numeric(errors='coerce') on one cell: a number stays, a text is
\* parsed, and what does not parse becomes NaN
ToNumeric(c) ==
    CASE c.k = "num" -> c
      [] c.k = "str" ->
            LET t == Strip(c.s) IN
            IF t = <<"n", "a", "n">> THEN NaN
            ELSE IF t # <<>> /\ Head(t) = "-"
                 THEN LET u == ParseUnsigned(Tail(t)) IN
                      IF u.k = "num" THEN Num(0 - u.h) ELSE NaN
            ELSE ParseUnsigned(t)
      [] OTHER -> NaN

(***************************************************************************)
(* DataFrames.                                                             *)
(***************************************************************************)
EmptyDF == [cols |-> {}, dtype |-> <<>>, rows |-> <<>>]

Column(d, c) == [i \in 1..Len(d.rows) |-> d.rows[i][c]]

\* df[c] = vals  (a new or replaced column of dtype dt)
SetCol(d, c, dt, vals) ==
    [cols |-> d.cols \cup {c},
     dtype |-> [x \in d.cols \cup {c} |-> IF x = c THEN dt ELSE d.dtype[x]],
     rows |-> [i \in 1..Len(d.rows) |->
                 [x \in d.cols \cup {c} |-> IF x = c THEN vals[i] ELSE d.rows[i][x]]]]

\* df[keep]
Project(d, keep) ==
    [cols |-> keep,
     dtype |-> [x \in keep |-> d.dtype[x]],
     rows |-> [i \in 1..Len(d.rows) |-> [x \in keep |-> d.rows[i][x]]]]

RECURSIVE SelectRows(_, _)
SelectRows(rows, mask) ==
    IF rows = <<>> THEN <<>>
    ELSE (IF Head(mask) THEN <<Head(rows)>> ELSE <<>>) \o SelectRows(Tail(rows), Tail(mask))

\* df[mask]: the rows whose mask is true, in their order
Filter(d, mask) == [d EXCEPT !.rows = SelectRows(d.rows, mask)]

MapSeq(vals, F(_)) == [i \in 1..Len(vals) |-> F(vals[i])]

(***************************************************************************)
(* estimated_analysis.py: clean_estimated                                  *)
(***************************************************************************)
\* c.strip() on a column name; the names of the model are plain strings and
\* " Year " is the one that carries surrounding blanks
StripName(c) == IF c = " Year " THEN "Year" ELSE c

\* df.columns = [c.strip() for c in df.columns]
StripColumns(d) ==
    LET names == {StripName(c) : c \in d.cols}
        old(x) == CHOOSE c \in d.cols : StripName(c) = x
    IN [cols |-> names,
        dtype |-> [x \in names |-> d.dtype[old(x)]],
        rows |-> [i \in 1..Len(d.rows) |-> [x \in names |-> d.rows[i][old(x)]]]]

\* df[col].astype(str).str.strip() on one cell
StrStripCell(c, dt) == Str(Strip(AsTypeStr(c, dt).s))

\* for col in df.select_dtypes(include=['object']).columns:
\*     df[col] = df[col].astype(str).str.strip()
StripObjects(d) ==
    [d EXCEPT !.rows = [i \in 1..Len(d.rows) |->
        [x \in d.cols |-> IF d.dtype[x] = "object"
                          THEN StrStripCell(d.rows[i][x], "object")
                          ELSE d.rows[i][x]]]]

\* pd.to_numeric(df['Year'].astype(str).str.strip(), errors='coerce')
YearNumeric(d) == MapSeq(Column(d, "Year"), LAMBDA c : ToNumeric(StrStripCell(c, d.dtype["Year"])))

\* .astype('Int64') raises TypeError on a value that is not a whole number
CastableInt64(vals) == \A i \in 1..Len(vals) : vals[i].k = "num" => vals[i].h % 2 = 0

ToInt64(vals) == MapSeq(vals, LAMBDA c : IF c.k = "num" THEN c ELSE NA)

NumericDtype(vals) ==
    IF \A i \in 1..Len(vals) : vals[i].k = "num" /\ vals[i].h % 2 = 0 THEN "int64" ELSE "float64"

\* the derived median column: pd.to_numeric(df[src], errors='coerce') when the
\* source column exists, else the scalar pd.NA (an object column)
\* faulty variant: an existing derived column is kept when its source column is absent
WithMedianKeepExisting(d, src, dst) ==
    IF src \in d.cols
    THEN LET vals == MapSeq(Column(d, src), ToNumeric)
         IN SetCol(d, dst, NumericDtype(vals), vals)
    ELSE IF dst \in d.cols THEN d
    ELSE SetCol(d, dst, "object", [i \in 1..Len(d.rows) |-> NA])

WithMedian(d, src, dst) ==
    IF src \in d.cols
    THEN LET vals == MapSeq(Column(d, src), ToNumeric)
         IN SetCol(d, dst, NumericDtype(vals), vals)
    ELSE SetCol(d, dst, "object", [i \in 1..Len(d.rows) |-> NA])

Keep == {"Country", "Year", "cases_median", "deaths_median", "WHO Region"}

NotNaMask(d, c) == [i \in 1..Len(d.rows) |-> ~IsNa(d.rows[i][c])]

\* result[result['Country'].notna()], then result[result['Year'].notna()]
DropMissingKeys(r) ==
    LET r1 == Filter(r, NotNaMask(r, "Country"))
    IN IF "Year" \in r1.cols THEN Filter(r1, NotNaMask(r1, "Year")) ELSE r1

Ok(d) == [status |-> "ok", df |-> d]
Raise(e) == [status |-> e, df |-> EmptyDF]

clean_estimated(d0) ==
    LET d1 == StripColumns(d0)
        d2 == StripObjects(d1)
        hasYear == "Year" \in d2.cols
        years == YearNumeric(d2)
        d3 == IF hasYear THEN SetCol(d2, "Year", "Int64", ToInt64(years)) ELSE d2
        d4 == WithMedian(d3, "No. of cases_median", "cases_median")
        d5 == WithMedian(d4, "No. of deaths_median", "deaths_median")
        result == Project(d5, Keep \cap d5.cols)
    IN IF hasYear /\ ~CastableInt64(years) THEN Raise("TypeError")
       ELSE IF "Country" \notin result.cols THEN Raise("KeyError")
       ELSE Ok(DropMissingKeys(result))

(***************************************************************************)
(* data_analysis.py: clean_data                                            *)
(***************************************************************************)
\* a text of the form YYYY-MM-DD with a month 01..12 and a day 01..31
ParseDate(t) ==
    IF Len(t) = 10 /\ t[5] = "-" /\ t[8] = "-"
       /\ AllDigits(SubSeq(t, 1, 4)) /\ AllDigits(SubSeq(t, 6, 7)) /\ AllDigits(SubSeq(t, 9, 10))
       /\ DigitsVal(SubSeq(t, 6, 7)) \in 1..12 /\ DigitsVal(SubSeq(t, 9, 10)) \in 1..31
    THEN Date(DigitsVal(SubSeq(t, 1, 4)), DigitsVal(SubSeq(t, 6, 7)), DigitsVal(SubSeq(t, 9, 10)))
    ELSE NaT

\* pd.to_datetime(errors='coerce') on one cell
ToDatetime(c) ==
    CASE c.k = "date" -> c
      [] c.k = "str" -> ParseDate(Strip(c.s))
      [] OTHER -> NaT

\* .dt.year on one cell
DtYear(c) == IF c.k = "date" THEN Num(2 * (c.h \div 10000)) ELSE NaN

YearDtype(vals) == IF \E i \in 1..Len(vals) : IsNa(vals[i]) THEN "float64" ELSE "int32"

DateCol(d) ==
    IF "publish_time" \in d.cols THEN "publish_time"
    ELSE IF "publish_date" \in d.cols THEN "publish_date"
    ELSE "none"

WithYear(d) ==
    LET date_col == DateCol(d) IN
    IF date_col # "none"
    THEN LET dates == MapSeq(Column(d, date_col), ToDatetime)
             yrs == MapSeq(dates, DtYear)
         IN SetCol(SetCol(d, date_col, "datetime64", dates), "year", YearDtype(yrs), yrs)
    ELSE SetCol(d, "year", "datetime64", [i \in 1..Len(d.rows) |-> NaT])

\* fillna('')
FillNaEmpty(c) == IF IsNa(c) THEN Str(<<>>) ELSE c

\* len(s.split()): the number of maximal runs of non-whitespace characters
RECURSIVE WordCount(_)
WordCount(t) ==
    IF t = <<>> THEN 0
    ELSE (IF Head(t) \notin Whitespace /\ (Len(t) = 1 \/ t[2] \in Whitespace) THEN 1 ELSE 0)
         + WordCount(Tail(t))

WithAbstractWordCount(d) ==
    IF "abstract" \in d.cols
    THEN SetCol(d, "abstract_word_count", "int64",
                MapSeq(Column(d, "abstract"),
                       LAMBDA c : Num(2 * WordCount(AsTypeStr(FillNaEmpty(c), d.dtype["abstract"]).s))))
    ELSE SetCol(d, "abstract_word_count", "int64", [i \in 1..Len(d.rows) |-> Num(0)])

WithTitle(d) ==
    IF "title" \in d.cols
    THEN SetCol(d, "title", "object",
                MapSeq(Column(d, "title"), LAMBDA c : AsTypeStr(FillNaEmpty(c), d.dtype["title"])))
    ELSE d

\* faulty variant: a row needs a title and an abstract
TitleAndAbstractMask(d) ==
    [i \in 1..Len(d.rows) |->
        Strip(d.rows[i]["title"].s) # <<>> /\ d.rows[i]["abstract_word_count"].h > 0]

\* (df['title'].str.strip() != '') | (df['abstract_word_count'] > 0)
TitleOrAbstractMask(d) ==
    [i \in 1..Len(d.rows) |->
        Strip(d.rows[i]["title"].s) # <<>> \/ d.rows[i]["abstract_word_count"].h > 0]

clean_data(d0) ==
    LET d3 == WithTitle(WithAbstractWordCount(WithYear(d0)))
    IN IF "title" \notin d3.cols THEN Raise("KeyError")
       ELSE Ok(Filter(d3, TitleOrAbstractMask(d3)))

(***************************************************************************)
(* The tables the cleaners are run on.  A column choice is the dtype of    *)
(* the column and its cells, or "absent".                                  *)
(***************************************************************************)
Absent == [dt |-> "absent", vals |-> <<>>]

ColumnsOver(n, dt, vocab) == {[dt |-> dt, vals |-> v] : v \in [1..n -> vocab]}

\* the DataFrame of the column choices cm (a function from names to choices)
MkDF(n, cm) ==
    LET cols == {c \in DOMAIN cm : cm[c].dt # "absent"}
    IN [cols |-> cols,
        dtype |-> [c \in cols |-> cm[c].dt],
        rows |-> [i \in 1..n |-> [c \in cols |-> cm[c].vals[i]]]]

TxtA == <<"A">>
Txt2020 == <<"2", "0", "2", "0">>
Txt2021 == <<" ", "2", "0", "2", "1">>
Txt2020p5 == <<"2", "0", "2", "0", ".", "5">>
TxtX == <<"x">>
Txt10 == <<"1", "0">>
Txt3 == <<"3">>
TxtEUR == <<"E", "U", "R", " ">>

EstCountryChoices(n) ==
    {Absent} \cup ColumnsOver(n, "object", {None, NaN, Str(TxtA)})
             \cup ColumnsOver(n, "float64", {NaN})

EstYearChoices(n) ==
    {Absent} \cup ColumnsOver(n, "object", {NaN, Str(Txt2020), Str(Txt2021), Str(Txt2020p5), Str(TxtX)})
             \cup ColumnsOver(n, "int64", {Num(4040), Num(4042)})
             \cup ColumnsOver(n, "float64", {NaN, Num(4040)})

EstCasesChoices(n) ==
    {Absent} \cup ColumnsOver(n, "object", {NaN, Str(Txt10), Str(TxtX)})
             \cup ColumnsOver(n, "float64", {NaN, Num(15)})

\* a deaths column: a number in the odd rows, an unparseable text in the even ones
EstDeathsChoices(n) ==
    {Absent, [dt |-> "object", vals |-> [i \in 1..n |-> IF i % 2 = 1 THEN Str(Txt3) ELSE Str(TxtX)]]}

EstRegionChoices(n) == {Absent} \cup ColumnsOver(n, "object", {Str(TxtEUR)})

\* the name of the Year column as the file spells it
YearNames(ye) == IF ye.dt = "int64" THEN {"Year", " Year "} ELSE {"Year"}

EstTable(n, co, yn, ye, ca, de, re) ==
    MkDF(n, [c \in {"Country", yn, "No. of cases_median", "No. of deaths_median", "WHO Region"} |->
                CASE c = "Country" -> co
                  [] c = yn -> ye
                  [] c = "No. of cases_median" -> ca
                  [] c = "No. of deaths_median" -> de
                  [] OTHER -> re])

TxtEmpty == <<>>
TxtBlank == <<" ">>
TxtTitleX == <<"X">>
TxtAbc == <<"a", " ", "b", " ", "c">>
TxtDate2020 == <<"2", "0", "2", "0", "-", "0", "1", "-", "0", "5">>
TxtDate2021 == <<"2", "0", "2", "1", "-", "0", "3", "-", "0", "1">>
TxtBad == <<"b", "a", "d">>

BibTitleChoices(n) ==
    {Absent} \cup ColumnsOver(n, "object", {NaN, Str(TxtEmpty), Str(TxtBlank), Str(TxtTitleX)})

BibAbstractChoices(n) ==
    {Absent} \cup ColumnsOver(n, "object", {NaN, Str(TxtEmpty), Str(TxtAbc)})

BibDateChoices(n) == ColumnsOver(n, "object", {Str(TxtDate2020), Str(TxtBad)})

\* a date column with a date in the odd rows and an unparseable text in the even ones
BibDateColumn(n, t) ==
    [dt |-> "object", vals |-> [i \in 1..n |-> IF i % 2 = 1 THEN Str(t) ELSE Str(TxtBad)]]

\* the date columns present: none, publish_time, publish_date or both
BibDateConfigs(n) ==
    {[pt |-> Absent, pd |-> Absent],
     [pt |-> Absent, pd |-> BibDateColumn(n, TxtDate2021)],
     [pt |-> BibDateColumn(n, TxtDate2020), pd |-> BibDateColumn(n, TxtDate2021)]}
    \cup {[pt |-> c, pd |-> Absent] : c \in BibDateChoices(n)}

BibTable(n, ti, ab, dc) ==
    MkDF(n, [c \in {"title", "abstract", "publish_time", "publish_date"} |->
                CASE c = "title" -> ti
                  [] c = "abstract" -> ab
                  [] c = "publish_time" -> dc.pt
                  [] OTHER -> dc.pd])

NoCall == [fn |-> "none", pass |-> 0, on |-> "none", agg |-> "none", year |-> 0, top_n |-> 0, lo |-> 0, hi |-> 0]

Loaded(k, t) ==
    /\ pc = "loaded"
    /\ kind = k
    /\ raw = t
    /\ df = t
    /\ prev = t
    /\ call = NoCall
    /\ out = <<>>
    /\ err = "none"

EstCleanUpTo(m) ==
    \E n \in 0..m :
      \E co \in EstCountryChoices(n), ye \in EstYearChoices(n), ca \in EstCasesChoices(n),
         de \in EstDeathsChoices(n), re \in EstRegionChoices(n) :
        \E yn \in YearNames(ye) :
          Loaded("est", EstTable(n, co, yn, ye, ca, de, re))

BibCleanUpTo(m) ==
    \E n \in 0..m :
      \E ti \in BibTitleChoices(n), ab \in BibAbstractChoices(n), dc \in BibDateConfigs(n) :
        Loaded("bib", BibTable(n, ti, ab, dc))

InitEstClean == EstCleanUpTo(MaxEstRows)
InitBibClean == BibCleanUpTo(MaxBibRows)

(***************************************************************************)
(* The cleaning passes: the first on the loaded table, the second on the   *)
(* first one's output.                                                     *)
(***************************************************************************)
Pass == IF pc = "loaded" THEN 1 ELSE 2

Cleaned(fn, r) ==
    /\ call' = [NoCall EXCEPT !.fn = fn, !.pass = Pass]
    /\ prev' = df
    /\ df' = r.df
    /\ err' = IF r.status = "ok" THEN "none" ELSE r.status
    /\ pc' = IF r.status # "ok" THEN "failed"
             ELSE IF pc = "loaded" THEN "cleaned" ELSE "recleaned"
    /\ UNCHANGED <<kind, raw, out>>

CleanEstimated ==
    /\ kind = "est"
    /\ pc \in {"loaded", "cleaned"}
    /\ Cleaned("clean_estimated", clean_estimated(df))

CleanData ==
    /\ kind = "bib"
    /\ pc \in {"loaded", "cleaned"}
    /\ Cleaned("clean_data", clean_data(df))

NextEstClean == CleanEstimated
SpecEstClean == InitEstClean /\ [][NextEstClean]_vars

NextBibClean == CleanData
SpecBibClean == InitBibClean /\ [][NextBibClean]_vars

InitClean == EstCleanUpTo(MaxCleanRows) \/ BibCleanUpTo(MaxCleanRows)
NextClean == CleanEstimated \/ CleanData
SpecClean == InitClean /\ [][NextClean]_vars

(***************************************************************************)
(* Claims about the cleaners.                                              *)
(***************************************************************************)
FirstPass(fn) == call.fn = fn /\ call.pass = 1
SecondPass == call.pass = 2

RawCols == {StripName(c) : c \in raw.cols}
RawCell(i, c) == raw.rows[i][CHOOSE x \in raw.cols : StripName(x) = c]
RawDtype(c) == raw.dtype[CHOOSE x \in raw.cols : StripName(x) = c]

SameCell(a, b) == (IsNa(a) /\ IsNa(b)) \/ a = b

SameTable(a, b) ==
    /\ a.cols = b.cols
    /\ Len(a.rows) = Len(b.rows)
    /\ \A i \in 1..Len(a.rows) : \A c \in a.cols : SameCell(a.rows[i][c], b.rows[i][c])

\* a raw Year cell that is neither missing nor unparseable
YearUsable(i) == ToNumeric(StrStripCell(RawCell(i, "Year"), RawDtype("Year"))).k = "num"

C1Example ==
    EstTable(2, [dt |-> "object", vals |-> <<Str(TxtA), None>>], "Year",
             [dt |-> "object", vals |-> <<Str(Txt2020), Str(Txt2020)>>],
             [dt |-> "object", vals |-> <<Str(Txt10), NaN>>], Absent, Absent)

\* C1: after clean_estimated on a table with a Country and a Year column,
\* every retained row has a non-missing Country and Year, and the retained
\* rows are exactly the raw rows whose Country is not missing and whose Year
\* is neither missing nor unparseable; of the two rows of the example only
\* the first is retained, with cases_median = 10.0.
C1_RetainedRowsHaveCountryAndYear ==
    (FirstPass("clean_estimated") /\ pc = "cleaned" /\ {"Country", "Year"} \subseteq RawCols) =>
        /\ \A i \in 1..Len(df.rows) : ~IsNa(df.rows[i]["Country"]) /\ ~IsNa(df.rows[i]["Year"])
        /\ Len(df.rows) = Cardinality({i \in 1..Len(raw.rows) :
                                          ~IsNa(RawCell(i, "Country")) /\ YearUsable(i)})
        /\ (raw = C1Example => Len(df.rows) = 1 /\ df.rows[1]["cases_median"] = Num(20))

\* C2 as stated: a second cleaning pass succeeds and returns the table of
\* the first pass, with the same rows, columns and cell values.
C2_CleanersIdempotent ==
    SecondPass => (pc = "recleaned" /\ SameTable(df, prev))

DerivedMedians == {"cases_median", "deaths_median"}

\* C2 amended: a second pass of clean_data returns the table of the first
\* pass; a second pass of clean_estimated returns the same columns, the same
\* rows and the same Country, Year and WHO Region values, and every
\* cases_median and deaths_median value is missing.
C2_SecondPassKeepsKeysAndClearsMedians ==
    SecondPass =>
        /\ pc = "recleaned"
        /\ kind = "bib" => SameTable(df, prev)
        /\ kind = "est" =>
              /\ df.cols = prev.cols
              /\ Len(df.rows) = Len(prev.rows)
              /\ \A i \in 1..Len(df.rows) :
                    /\ \A c \in df.cols \ DerivedMedians : SameCell(df.rows[i][c], prev.rows[i][c])
                    /\ \A c \in DerivedMedians : IsNa(df.rows[i][c])

C2_Witness ==
    /\ SecondPass
    /\ kind = "est"
    /\ pc = "recleaned"
    /\ \E i \in 1..Len(prev.rows) : prev.rows[i]["cases_median"].k = "num"

C3Example ==
    BibTable(3, [dt |-> "object", vals |-> <<Str(TxtEmpty), Str(TxtTitleX), Str(TxtEmpty)>>],
             [dt |-> "object", vals |-> <<Str(TxtAbc), Str(TxtEmpty), Str(TxtEmpty)>>],
             [pt |-> Absent, pd |-> Absent])

TitleText(c) == IF IsNa(c) THEN <<>> ELSE c.s

\* the whitespace-delimited tokens of a text, counted by their first characters
Tokens(t) == Cardinality({i \in 1..Len(t) : t[i] # " " /\ (i = 1 \/ t[i - 1] = " ")})

AbstractTokens(i) ==
    IF "abstract" \in raw.cols /\ ~IsNa(raw.rows[i]["abstract"])
    THEN Tokens(raw.rows[i]["abstract"].s) ELSE 0

Retainable(i) ==
    \/ \E j \in 1..Len(TitleText(raw.rows[i]["title"])) : TitleText(raw.rows[i]["title"])[j] # " "
    \/ AbstractTokens(i) > 0

RECURSIVE RetainableFrom(_)
RetainableFrom(i) ==
    IF i > Len(raw.rows) THEN <<>>
    ELSE (IF Retainable(i) THEN <<i>> ELSE <<>>) \o RetainableFrom(i + 1)

\* C3: clean_data on a table with a title column returns at most as many
\* rows as it was given, in input order, and retains a row iff its stripped
\* title is non-empty or its abstract has at least one token; of the three
\* rows of the example the first two are retained, with word counts 3 and 0.
C3_RetainsTitleOrAbstract ==
    (FirstPass("clean_data") /\ "title" \in raw.cols) =>
        LET idx == RetainableFrom(1) IN
        /\ pc = "cleaned"
        /\ Len(df.rows) <= Len(raw.rows)
        /\ Len(df.rows) = Len(idx)
        /\ \A j \in 1..Len(idx) :
              /\ df.rows[j]["title"].s = TitleText(raw.rows[idx[j]]["title"])
              /\ df.rows[j]["abstract_word_count"] = Num(2 * AbstractTokens(idx[j]))
              /\ "abstract" \in raw.cols => df.rows[j]["abstract"] = raw.rows[idx[j]]["abstract"]
        /\ raw = C3Example =>
              /\ Len(df.rows) = 2
              /\ df.rows[1]["abstract_word_count"] = Num(6)
              /\ df.rows[2]["abstract_word_count"] = Num(0)
              /\ df.rows[1]["abstract"] = Str(TxtAbc)
              /\ df.rows[2]["title"] = Str(TxtTitleX)

C3_Witness == FirstPass("clean_data") /\ pc = "cleaned" /\ raw = C3Example

\* C5: clean_estimated on a table with a Country and a Year column never
\* fails, whatever the cells hold: it returns a table, and a row with a
\* Country and a usable Year is retained whatever its median cells hold.
C5_NeverFailsOnCellValues ==
    (FirstPass("clean_estimated") /\ {"Country", "Year"} \subseteq RawCols) =>
        /\ pc = "cleaned"
        /\ err = "none"
        /\ Len(df.rows) >= Cardinality({i \in 1..Len(raw.rows) :
                                           ~IsNa(RawCell(i, "Country")) /\ YearUsable(i)})

\* C6: the first cleaning pass returns a table whatever columns the raw
\* table has: it raises no KeyError, and the rows of a bibliographic table
\* without a title column are treated as having an empty title.
C6_ToleratesMissingColumns ==
    (call.pass = 1) =>
        /\ err # "KeyError"
        /\ (kind = "bib" /\ "title" \notin raw.cols) =>
              /\ pc = "cleaned"
              /\ Len(df.rows) = Cardinality({i \in 1..Len(raw.rows) : AbstractTokens(i) > 0})

(***************************************************************************)
(* estimated_analysis.py: the aggregations of the two plots.  The value    *)
(* returned is the series or the frame handed to matplotlib; the drawing   *)
(* itself is not modelled.                                                 *)
(***************************************************************************)
Min(a, b) == IF a < b THEN a ELSE b

\* head(n) for n >= 0
HeadN(q, n) == SubSeq(q, 1, Min(n, Len(q)))

RECURSIVE SortedSeqOf(_)
SortedSeqOf(S) ==
    IF S = {} THEN <<>>
    ELSE LET m == CHOOSE x \in S : \A y \in S : x <= y
         IN <<m>> \o SortedSeqOf(S \ {m})

RECURSIVE SumSeq(_)
SumSeq(q) == IF q = <<>> THEN 0 ELSE Head(q) + SumSeq(Tail(q))

RECURSIVE InsertSorted(_, _)
InsertSorted(x, q) ==
    IF q = <<>> THEN <<x>>
    ELSE IF x <= Head(q) THEN <<x>> \o q
    ELSE <<Head(q)>> \o InsertSorted(x, Tail(q))

RECURSIVE SortInts(_)
SortInts(q) == IF q = <<>> THEN <<>> ELSE InsertSorted(Head(q), SortInts(Tail(q)))

\* the non-missing cases_median values (in halves) of the rows of one year
RECURSIVE GroupValues(_, _)
GroupValues(rows, y) ==
    IF rows = <<>> THEN <<>>
    ELSE (IF Head(rows)["Year"] = Num(y) /\ ~IsNa(Head(rows)["cases_median"])
          THEN <<Head(rows)["cases_median"].h>> ELSE <<>>) \o GroupValues(Tail(rows), y)

\* the keys of df.groupby('Year'): the distinct non-missing years, ascending
GroupKeys(d) ==
    SortedSeqOf({d.rows[i]["Year"].h : i \in {j \in 1..Len(d.rows) : ~IsNa(d.rows[j]["Year"])}})

\* grouped.sum(): missing values are skipped, an empty sum is 0
GroupSum(q) == Num(SumSeq(q))

\* grouped.median(): missing values are skipped, the median of nothing is NaN
\* (the values of the model are whole numbers, so the mean of the two middle
\* ones is a number of halves)
GroupMedian(q) ==
    LET t == SortInts(q)
        n == Len(t)
    IN IF n = 0 THEN NaN
       ELSE IF n % 2 = 1 THEN Num(t[(n + 1) \div 2])
       ELSE Num((t[n \div 2] + t[n \div 2 + 1]) \div 2)

Returned(v) == [status |-> "ok", value |-> v]
Raised(e) == [status |-> e, value |-> <<>>]

\* the median of an object column (the all-pd.NA cases_median of a table
\* with no source column) raises TypeError as soon as there is a group
plot_cases_over_time(d, agg) ==
    IF "Year" \notin d.cols \/ "cases_median" \notin d.cols THEN Raised("ValueError")
    ELSE LET keys == GroupKeys(d)
         IN IF agg = "sum"
            THEN Returned([j \in 1..Len(keys) |->
                            [key |-> keys[j], val |-> GroupSum(GroupValues(d.rows, keys[j]))]])
            ELSE IF d.dtype["cases_median"] = "object" /\ keys # <<>>
            THEN Raised("TypeError")
            ELSE Returned([j \in 1..Len(keys) |->
                            [key |-> keys[j], val |-> GroupMedian(GroupValues(d.rows, keys[j]))]])

\* the orders of 1..Len(rows), as sequences
Orders(n) == {p \in [1..n -> 1..n] : \A i, j \in 1..n : i # j => p[i] # p[j]}

\* faulty variant: ascending
SortValuesAscending(rows, col) ==
    {[i \in 1..Len(rows) |-> rows[p[i]]] : p \in
        {q \in Orders(Len(rows)) :
            \A i \in 1..(Len(rows) - 1) : rows[q[i]][col].h <= rows[q[i + 1]][col].h}}

\* sort_values(col, ascending=False) with the default kind='quicksort', which
\* is not stable: every descending order of the rows is a possible result
SortValuesDescending(rows, col) ==
    {[i \in 1..Len(rows) |-> rows[p[i]]] : p \in
        {q \in Orders(Len(rows)) :
            \A i \in 1..(Len(rows) - 1) : rows[q[i]][col].h >= rows[q[i + 1]][col].h}}

\* df[df['Year'] == year]
YearEqMask(d, year) == [i \in 1..Len(d.rows) |-> d.rows[i]["Year"] = Num(2 * year)]

\* the (Country, cases_median) pairs handed to barh, best first
TopPairs(rows) == [i \in 1..Len(rows) |-> [Country |-> rows[i]["Country"], cases_median |-> rows[i]["cases_median"]]]

\* the set of the results the call can produce
plot_top_countries_for_year(d, year, top_n) ==
    IF "Year" \notin d.cols THEN {Raised("ValueError")}
    ELSE IF "cases_median" \notin d.cols \/ "Country" \notin d.cols THEN {Raised("KeyError")}
    ELSE LET sub == Filter(d, YearEqMask(d, year))
             sub2 == Filter(sub, NotNaMask(sub, "cases_median"))
         IN {Returned(TopPairs(HeadN(top, top_n))) : top \in SortValuesDescending(sub2.rows, "cases_median")}

Txt5 == <<"5">>
TxtB == <<"B">>
TxtC == <<"C">>

\* the tables of the aggregation runs: row i belongs to the i-th country
AggCountry(n) == [dt |-> "object", vals |-> [i \in 1..n |-> Str(<<TxtA, TxtB, TxtC, <<"D">> >>[i])]]
AggYearChoices(n) == {Absent} \cup ColumnsOver(n, "int64", {Num(4040), Num(4042)})
AggCasesChoices(n) == {Absent} \cup ColumnsOver(n, "object", {NaN, Str(Txt5), Str(Txt10)})

InitEstAgg ==
    \E n \in 0..MaxAggRows :
      \E ye \in AggYearChoices(n), ca \in AggCasesChoices(n) :
        Loaded("est", EstTable(n, AggCountry(n), "Year", ye, ca, Absent, Absent))

AggYears == {2020, 2021, 2022}

Called(fn, args, r) ==
    /\ call' = [args EXCEPT !.fn = fn, !.on = IF pc = "loaded" THEN "raw" ELSE pc]
    /\ out' = r.value
    /\ err' = IF r.status = "ok" THEN "none" ELSE r.status
    /\ pc' = IF r.status = "ok" THEN "done" ELSE "failed"
    /\ UNCHANGED <<kind, raw, df, prev>>

PlotCasesOverTime ==
    /\ kind = "est"
    /\ pc \in {"loaded", "cleaned"}
    /\ \E agg \in {"sum", "median"} :
          Called("plot_cases_over_time", [NoCall EXCEPT !.agg = agg], plot_cases_over_time(df, agg))

PlotTopCountriesForYear ==
    /\ kind = "est"
    /\ pc \in {"loaded", "cleaned"}
    /\ \E year \in AggYears, top_n \in 0..MaxTopN :
          \E r \in plot_top_countries_for_year(df, year, top_n) :
              Called("plot_top_countries_for_year", [NoCall EXCEPT !.year = year, !.top_n = top_n], r)

NextEstAgg == CleanEstimated \/ PlotCasesOverTime \/ PlotTopCountriesForYear
SpecEstAgg == InitEstAgg /\ [][NextEstAgg]_vars

(***************************************************************************)
(* Claims about the estimate aggregations.                                 *)
(***************************************************************************)
RowsOfYear(h) == {i \in 1..Len(df.rows) : df.rows[i]["Year"] = Num(h) /\ ~IsNa(df.rows[i]["cases_median"])}

RECURSIVE SumOver(_)
SumOver(S) ==
    IF S = {} THEN 0
    ELSE LET i == CHOOSE x \in S : TRUE IN df.rows[i]["cases_median"].h + SumOver(S \ {i})

CasesOf(i) == df.rows[i]["cases_median"].h

\* the median of the values of the rows S: the mean of the lower and the
\* upper median
LowerMedian(S) ==
    CHOOSE v \in {CasesOf(i) : i \in S} :
        /\ 2 * Cardinality({i \in S : CasesOf(i) <= v}) >= Cardinality(S)
        /\ \A w \in {CasesOf(i) : i \in S} :
              2 * Cardinality({i \in S : CasesOf(i) <= w}) >= Cardinality(S) => v <= w
UpperMedian(S) ==
    CHOOSE v \in {CasesOf(i) : i \in S} :
        /\ 2 * Cardinality({i \in S : CasesOf(i) >= v}) >= Cardinality(S)
        /\ \A w \in {CasesOf(i) : i \in S} :
              2 * Cardinality({i \in S : CasesOf(i) >= w}) >= Cardinality(S) => v >= w
MedianOver(S) == IF S = {} THEN NaN ELSE Num((LowerMedian(S) + UpperMedian(S)) \div 2)

\* C4: plot_cases_over_time raises the invalid-input error when the table
\* lacks a Year or a cases_median column, and otherwise succeeds with one
\* value per distinct year, the years ascending, each value the sum or the
\* median of the cases_median values of the rows of that year.
C4_CasesOverTimePerYear ==
    (call.fn = "plot_cases_over_time") =>
        IF "Year" \notin df.cols \/ "cases_median" \notin df.cols
        THEN err = "ValueError"
        ELSE /\ err = "none"
             /\ pc = "done"
             /\ {out[j].key : j \in 1..Len(out)} = {df.rows[i]["Year"].h : i \in 1..Len(df.rows)}
             /\ \A j \in 1..(Len(out) - 1) : out[j].key < out[j + 1].key
             /\ \A j \in 1..Len(out) :
                   out[j].val = IF call.agg = "sum" THEN Num(SumOver(RowsOfYear(out[j].key)))
                                ELSE MedianOver(RowsOfYear(out[j].key))

TopMatches == {i \in 1..Len(df.rows) :
                  df.rows[i]["Year"] = Num(2 * call.year) /\ ~IsNa(df.rows[i]["cases_median"])}

PairOf(i) == [Country |-> df.rows[i]["Country"], cases_median |-> df.rows[i]["cases_median"]]

\* the place of row i among the matches, best first, equal values in input order
StableRank(i) ==
    1 + Cardinality({j \in TopMatches : CasesOf(j) > CasesOf(i) \/ (CasesOf(j) = CasesOf(i) /\ j < i)})

TopCall == call.fn = "plot_top_countries_for_year" /\ call.on = "cleaned"

year_filter(d, lo, hi) ==
    IF "year" \notin d.cols THEN Ok(d)
    ELSE IF d.dtype["year"] = "datetime64" THEN Raise("TypeError")
    ELSE Ok(Filter(d, [i \in 1..Len(d.rows) |->
                          /\ d.rows[i]["year"].k = "num"
                          /\ d.rows[i]["year"].h >= 2 * lo
                          /\ d.rows[i]["year"].h <= 2 * hi]))

\* dropna()
RECURSIVE DropNa(_)
DropNa(vals) ==
    IF vals = <<>> THEN <<>>
    ELSE (IF IsNa(Head(vals)) THEN <<>> ELSE <<Head(vals)>>) \o DropNa(Tail(vals))

CountOf(x, vals) == Cardinality({i \in 1..Len(vals) : vals[i] = x})

\* the distinct values of a sequence, in the order of their first occurrence
RECURSIVE Distinct(_)
Distinct(vals) ==
    IF vals = <<>> THEN <<>>
    ELSE LET front == Distinct(SubSeq(vals, 1, Len(vals) - 1))
             x == vals[Len(vals)]
         IN IF \E i \in 1..Len(front) : front[i] = x THEN front ELSE front \o <<x>>

\* value_counts(): one entry per distinct value, the counts descending; the
\* order of values of equal count is that of an unstable sort
ValueCounts(vals) ==
    LET keys == Distinct(vals) IN
    {[i \in 1..Len(keys) |-> [key |-> keys[p[i]], val |-> CountOf(keys[p[i]], vals)]] : p \in
        {q \in Orders(Len(keys)) :
            \A i \in 1..(Len(keys) - 1) : CountOf(keys[q[i]], vals) >= CountOf(keys[q[i + 1]], vals)}}

\* faulty variant: the counts are left in the order of value_counts
SortIndexSkipped(entries) == entries

\* sort_index(): the entries by ascending key
SortIndex(entries) ==
    LET keys == SortedSeqOf({entries[i].key : i \in 1..Len(entries)})
    IN [j \in 1..Len(keys) |-> CHOOSE e \in {entries[i] : i \in 1..Len(entries)} : e.key = keys[j]]

\* astype(int) on a year of a float or int column
YearInt(c) == c.h \div 2

\* the set of the results the call can produce (one: sort_index fixes the order)
publications_by_year(d) ==
    IF "year" \notin d.cols THEN {Returned(<<>>)}
    ELSE {Returned(SortIndex(vc)) :
             vc \in ValueCounts(MapSeq(DropNa(Column(d, "year")), YearInt))}

\* faulty variant: doi is looked up before journal_x
JournalCandidatesDoiFirst == <<"journal", "doi", "journal_x", "journal_title">>

JournalCandidates == <<"journal", "journal_x", "doi", "journal_title">>

\* the first candidate that is a column of the table, or "none"
FirstPresent(cands, cols) ==
    IF \E i \in 1..Len(cands) : cands[i] \in cols
    THEN cands[CHOOSE i \in 1..Len(cands) : cands[i] \in cols /\ \A j \in 1..(i - 1) : cands[j] \notin cols]
    ELSE "none"

TxtUnknown == <<"U", "n", "k", "n", "o", "w", "n">>

\* fillna('Unknown')
FillNaUnknown(c) == IF IsNa(c) THEN Str(TxtUnknown) ELSE c

top_journals(d, top_n) ==
    LET col == FirstPresent(JournalCandidates, d.cols) IN
    IF col = "none" THEN {Returned(<<>>)}
    ELSE {Returned(HeadN(vc, top_n)) :
             vc \in ValueCounts(MapSeq(MapSeq(Column(d, col), FillNaUnknown), LAMBDA c : c.s))}

Upper == <<"A", "B", "C", "D", "E", "F", "G", "H", "I", "J", "K", "L", "M",
           "N", "O", "P", "Q", "R", "S", "T", "U", "V", "W", "X", "Y", "Z">>
Lower == <<"a", "b", "c", "d", "e", "f", "g", "h", "i", "j", "k", "l", "m",
           "n", "o", "p", "q", "r", "s", "t", "u", "v", "w", "x", "y", "z">>
IsUpper(ch) == \E i \in 1..26 : Upper[i] = ch
IsAlpha(ch) == \E i \in 1..26 : Upper[i] = ch \/ Lower[i] = ch

\* str.lower()
LowerChar(ch) == IF IsUpper(ch) THEN Lower[CHOOSE i \in 1..26 : Upper[i] = ch] ELSE ch
LowerText(t) == [i \in 1..Len(t) |-> LowerChar(t[i])]

RECURSIVE Join(_)
Join(t) == IF t = <<>> THEN "" ELSE Head(t) \o Join(Tail(t))

MinWordLen == 2

\* re.findall(r"[a-zA-Z]{2,}", t): the maximal runs of letters that are long
\* enough, left to right; cur is the run being read
RECURSIVE FindAll(_, _)
FindAll(t, cur) ==
    IF t = <<>> THEN (IF Len(cur) >= MinWordLen THEN <<Join(cur)>> ELSE <<>>)
    ELSE IF IsAlpha(Head(t)) THEN FindAll(Tail(t), cur \o <<Head(t)>>)
    ELSE (IF Len(cur) >= MinWordLen THEN <<Join(cur)>> ELSE <<>>) \o FindAll(Tail(t), <<>>)

STOPWORDS == {"the", "and", "of", "in", "to", "a", "for", "on", "with", "by", "an", "from",
              "study", "studies", "using", "use", "based"}

\* the words of the titles, in reading order, the stopwords left out
RECURSIVE TitleWords(_)
TitleWords(texts) ==
    IF texts = <<>> THEN <<>>
    ELSE SelectSeq(FindAll(Head(texts), <<>>), LAMBDA w : w \notin STOPWORDS) \o TitleWords(Tail(texts))

\* Counter(words): the distinct words in first-encountered order, with counts
Counter(words) ==
    LET keys == Distinct(words) IN [i \in 1..Len(keys) |-> [key |-> keys[i], val |-> CountOf(keys[i], words)]]

\* faulty variant: an entry goes before the entries of equal count
RECURSIVE InsertByCountBeforeEqual(_, _)
InsertByCountBeforeEqual(e, q) ==
    IF q = <<>> THEN <<e>>
    ELSE IF e.val >= Head(q).val THEN <<e>> \o q
    ELSE <<Head(q)>> \o InsertByCountBeforeEqual(e, Tail(q))

\* an entry goes after the entries of a count at least its own
RECURSIVE InsertByCount(_, _)
InsertByCount(e, q) ==
    IF q = <<>> THEN <<e>>
    ELSE IF e.val > Head(q).val THEN <<e>> \o q
    ELSE <<Head(q)>> \o InsertByCount(e, Tail(q))

\* sorted(items, key=count, reverse=True): stable
RECURSIVE SortByCountDesc(_)
SortByCountDesc(entries) ==
    IF entries = <<>> THEN <<>>
    ELSE InsertByCount(entries[Len(entries)], SortByCountDesc(SubSeq(entries, 1, Len(entries) - 1)))

\* Counter.most_common(n)
MostCommon(entries, n) == HeadN(SortByCountDesc(entries), n)

title_word_frequency(d, top_n) ==
    LET texts == IF "title" \in d.cols
                 THEN MapSeq(DropNa(Column(d, "title")),
                             LAMBDA c : LowerText(AsTypeStr(c, d.dtype["title"]).s))
                 ELSE <<>>
    IN Returned(MostCommon(Counter(TitleWords(texts)), top_n))

(***************************************************************************)
(* The aggregation runs of the bibliographic pipeline.                     *)
(***************************************************************************)
TxtDate2019 == <<"2", "0", "1", "9", "-", "1", "2", "-", "3", "1">>
TxtJ1 == <<"J", "1">>
TxtJ2 == <<"J", "2">>
TxtZ == <<"Z">>

TitledX(n) == [dt |-> "object", vals |-> [i \in 1..n |-> Str(TxtTitleX)]]

PubDateChoices(n) ==
    {Absent} \cup ColumnsOver(n, "object",
                              {Str(TxtDate2019), Str(TxtDate2020), Str(TxtDate2021), Str(TxtBad)})

InitPubYear ==
    \E n \in 0..MaxAggRows :
      \E pt \in PubDateChoices(n) :
        Loaded("bib", BibTable(n, TitledX(n), Absent, [pt |-> pt, pd |-> Absent]))

FilterYears == 2019..2021

\* app.py: the year-range filter between the cleaner and the aggregators
FilterYear ==
    /\ kind = "bib"
    /\ pc = "cleaned"
    /\ \E lo \in FilterYears, hi \in FilterYears :
          /\ lo <= hi
          /\ LET r == year_filter(df, lo, hi) IN
             /\ call' = [NoCall EXCEPT !.fn = "year_filter", !.on = pc, !.lo = lo, !.hi = hi]
             /\ prev' = df
             /\ df' = r.df
             /\ err' = IF r.status = "ok" THEN "none" ELSE r.status
             /\ pc' = IF r.status = "ok" THEN "filtered" ELSE "failed"
             /\ UNCHANGED <<kind, raw, out>>

PublicationsByYear ==
    /\ kind = "bib"
    /\ pc \in {"loaded", "cleaned", "filtered"}
    /\ \E r \in publications_by_year(df) : Called("publications_by_year", NoCall, r)

NextPubYear == CleanData \/ FilterYear \/ PublicationsByYear
SpecPubYear == InitPubYear /\ [][NextPubYear]_vars

\* the journal-like columns of a table: the first present candidate holds
\* the values counted, every later one the same other value
JournalColumns(n, present, first) ==
    [c \in {JournalCandidates[i] : i \in 1..4} |->
        IF c \notin present THEN Absent
        ELSE IF c = FirstPresent(<<"journal", "journal_x", "doi", "journal_title">>, present) THEN first
        ELSE [dt |-> "object", vals |-> [i \in 1..n |-> Str(TxtZ)]]]

JournalTable(n, present, first) ==
    LET jc == JournalColumns(n, present, first) IN
    MkDF(n, [c \in {"title", "journal", "journal_x", "doi", "journal_title"} |->
                IF c = "title" THEN TitledX(n) ELSE jc[c]])

InitJournals ==
    \E n \in 0..MaxAggRows :
      \E present \in SUBSET {"journal", "journal_x", "doi", "journal_title"} :
        \E first \in (IF present = {} THEN {Absent}
                      ELSE ColumnsOver(n, "object", {NaN, Str(TxtJ1), Str(TxtJ2)})) :
          Loaded("bib", JournalTable(n, present, first))

TopJournals ==
    /\ kind = "bib"
    /\ pc \in {"loaded", "cleaned"}
    /\ \E top_n \in 0..MaxTopN :
          \E r \in top_journals(df, top_n) :
              Called("top_journals", [NoCall EXCEPT !.top_n = top_n], r)

NextJournals == CleanData \/ TopJournals
SpecJournals == InitJournals /\ [][NextJournals]_vars

TitleVocabulary ==
    {NaN,
     Str(<<>>),
     Str(<<"F", "l", "u", " ", "o", "f", " ", "f", "l", "u">>),
     Str(<<"R", "N", "A", "-", "f", "l", "u">>),
     Str(<<"a", " ", "f", "l", "u", " ", "x", "2">>),
     Str(<<"T", "h", "e", " ", "r", "n", "a">>),
     Str(<<"c", "o", "v">>),
     Str(<<"c", "o", "v", " ", "r", "n", "a">>),
     Str(<<"i", "n", "1", "f", "l", "u">>)}

InitWords ==
    \E n \in 0..MaxTitles :
      \E ti \in {Absent} \cup ColumnsOver(n, "object", TitleVocabulary) :
        Loaded("bib", BibTable(n, ti, Absent, [pt |-> Absent, pd |-> Absent]))

TitleWordFrequency ==
    /\ kind = "bib"
    /\ pc \in {"loaded", "cleaned"}
    /\ \E top_n \in 0..MaxTopN :
          Called("title_word_frequency", [NoCall EXCEPT !.top_n = top_n], title_word_frequency(df, top_n))

NextWords == CleanData \/ TitleWordFrequency
SpecWords == InitWords /\ [][NextWords]_vars

(***************************************************************************)
(* Claims about the bibliographic aggregators.                             *)
(***************************************************************************)
RECURSIVE SumVals(_)
SumVals(entries) == IF entries = <<>> THEN 0 ELSE Head(entries).val + SumVals(Tail(entries))

RowsWithYear == {i \in 1..Len(df.rows) : ~IsNa(df.rows[i]["year"])}

\* C8: publications_by_year returns year keys that are strictly increasing,
\* one for every year of the table, each with the number of rows of that
\* year; the counts sum to the number of rows with a non-missing year, and
\* the result is empty when the table has no year column.
C8_PublicationsByYearSorted ==
    (call.fn = "publications_by_year") =>
        /\ err = "none"
        /\ IF "year" \notin df.cols THEN out = <<>>
           ELSE /\ \A j \in 1..(Len(out) - 1) : out[j].key < out[j + 1].key
                /\ \A j \in 1..Len(out) :
                      /\ out[j].val > 0
                      /\ out[j].val = Cardinality({i \in RowsWithYear : df.rows[i]["year"].h = 2 * out[j].key})
                /\ \A i \in RowsWithYear : \E j \in 1..Len(out) : df.rows[i]["year"].h = 2 * out[j].key
                /\ SumVals(out) = Cardinality(RowsWithYear)

C8_Witness ==
    /\ call.fn = "publications_by_year"
    /\ call.on = "filtered"
    /\ Len(raw.rows) > Len(df.rows)
    /\ out = <<[key |-> 2020, val |-> 1], [key |-> 2021, val |-> 1]>>

\* the tokens of the titles: (row, first, last) of every maximal run of letters
TitleAt(i) == df.rows[i]["title"].s

TitledRows == IF "title" \in df.cols THEN {i \in 1..Len(df.rows) : ~IsNa(df.rows[i]["title"])} ELSE {}

TokenRuns ==
    {x \in UNION {{<<i, p, q>> : p \in 1..Len(TitleAt(i)), q \in 1..Len(TitleAt(i))} : i \in TitledRows} :
        /\ x[2] <= x[3]
        /\ \A k \in x[2]..x[3] : IsAlpha(TitleAt(x[1])[k])
        /\ (x[2] = 1 \/ ~IsAlpha(TitleAt(x[1])[x[2] - 1]))
        /\ (x[3] = Len(TitleAt(x[1])) \/ ~IsAlpha(TitleAt(x[1])[x[3] + 1]))}

WordAt(x) == Join(LowerText(SubSeq(TitleAt(x[1]), x[2], x[3])))

\* the tokens that count: two letters at least, no stopword
CountedRuns == {x \in TokenRuns : x[3] - x[2] + 1 >= 2 /\ WordAt(x) \notin STOPWORDS}

Occurrences(w) == Cardinality({x \in CountedRuns : WordAt(x) = w})

FirstSeen(w) ==
    LET at == {x[1] * 100 + x[2] : x \in {y \in CountedRuns : WordAt(y) = w}}
    IN CHOOSE a \in at : \A b \in at : a <= b

LowerSet == {Lower[i] : i \in 1..26}

\* C9: title_word_frequency returns at most top_n pairs; every word is a
\* lowercase alphabetic token of two letters at least that is no stopword,
\* with the number of its occurrences in the non-missing titles; the pairs
\* are ordered by count descending, equal counts in first-encountered
\* order, and no word left out has a larger count than a word returned.
C9_TitleWordFrequencyTopN ==
    (call.fn = "title_word_frequency") =>
        LET words == {WordAt(x) : x \in CountedRuns} IN
        /\ err = "none"
        /\ Len(out) <= call.top_n
        /\ Len(out) = Min(call.top_n, Cardinality(words))
        /\ \A j \in 1..Len(out) :
              /\ out[j].key \in words
              /\ out[j].key \notin STOPWORDS
              /\ \A x \in CountedRuns : WordAt(x) = out[j].key =>
                    \A k \in x[2]..x[3] : LowerChar(TitleAt(x[1])[k]) \in LowerSet
              /\ out[j].val = Occurrences(out[j].key)
        /\ \A a, b \in 1..Len(out) : a # b => out[a].key # out[b].key
        /\ \A j \in 1..(Len(out) - 1) :
              \/ out[j].val > out[j + 1].val
              \/ out[j].val = out[j + 1].val /\ FirstSeen(out[j].key) < FirstSeen(out[j + 1].key)
        /\ \A w \in words \ {out[j].key : j \in 1..Len(out)} :
              \A j \in 1..Len(out) : Occurrences(w) <= out[j].val

C9_Witness ==
    /\ call.fn = "title_word_frequency"
    /\ call.top_n = 2
    /\ Len(df.rows) = 3
    /\ out = <<[key |-> "rna", val |-> 2], [key |-> "cov", val |-> 1]>>
    /\ Occurrences("flu") = 1

\* the journal-like column of the table, by priority
PriorityColumn ==
    IF "journal" \in df.cols THEN "journal"
    ELSE IF "journal_x" \in df.cols THEN "journal_x"
    ELSE IF "doi" \in df.cols THEN "doi"
    ELSE IF "journal_title" \in df.cols THEN "journal_title"
    ELSE "none"

JournalLabel(i) ==
    IF IsNa(df.rows[i][PriorityColumn]) THEN <<"U", "n", "k", "n", "o", "w", "n">>
    ELSE df.rows[i][PriorityColumn].s

JournalLabels == {JournalLabel(i) : i \in 1..Len(df.rows)}

LabelCount(v) == Cardinality({i \in 1..Len(df.rows) : JournalLabel(i) = v})

\* what C10 states about a table that has a candidate column
TopJournalsCounts ==
    /\ Len(out) <= call.top_n
    /\ \A j \in 1..Len(out) : out[j].key \in JournalLabels /\ out[j].val = LabelCount(out[j].key)
    /\ \A a, b \in 1..Len(out) : a # b => out[a].key # out[b].key
    /\ \A j \in 1..(Len(out) - 1) : out[j].val >= out[j + 1].val

\* C10 as stated: top_journals counts the first candidate column present,
\* missing values under the label Unknown, returns at most top_n entries by
\* count descending, and returns an empty result, not an error, exactly
\* when none of the four candidate columns exists.
C10_TopJournalsEmptyIffNoColumn ==
    (call.fn = "top_journals") =>
        /\ err = "none"
        /\ PriorityColumn # "none" => TopJournalsCounts
        /\ out = <<>> <=> PriorityColumn = "none"

\* C10 amended: the result is empty when no candidate column exists; when
\* one exists the result holds min(top_n, distinct labels) entries, the
\* ones of the largest counts, so that it is empty only for a table with
\* no rows or for top_n = 0.
C10_TopJournalsByPriority ==
    (call.fn = "top_journals") =>
        /\ err = "none"
        /\ PriorityColumn = "none" => out = <<>>
        /\ PriorityColumn # "none" =>
              /\ TopJournalsCounts
              /\ Len(out) = Min(call.top_n, Cardinality(JournalLabels))
              /\ \A v \in JournalLabels \ {out[j].key : j \in 1..Len(out)} :
                    \A j \in 1..Len(out) : LabelCount(v) <= out[j].val

C10_Witness ==
    /\ call.fn = "top_journals"
    /\ df.cols \cap {"journal", "journal_x", "doi", "journal_title"} = {"journal_x", "doi"}
    /\ call.top_n = 2
    /\ out = <<[key |-> <<"U", "n", "k", "n", "o", "w", "n">>, val |-> 2], [key |-> TxtJ1, val |-> 1]>>

====
